---- MODULE Spec2Model ----
(***************************************************************************)
(* Model of the neoai front-door dispatcher (src/bin/neoai.ts), the local  *)
(* entry point initLocal (bin/init-local) and the resolution helpers.      *)
(* Paths, command tokens and environment values are strings, so that the   *)
(* string tests of the source (includes, replace, startsWith, ===) are     *)
(* computed as the source computes them.                                   *)
(***************************************************************************)
EXTENDS Integers, Sequences, FiniteSets, TLC

(***************************************************************************)
(* Bounds of the model.                                                    *)
(***************************************************************************)
MaxMajor == 2

\* the number of calls of getLatestVersionOfNeoai made in one process
MaxCalls == 3

\* the number of tokens after the command token
MaxArgs == 4

(***************************************************************************)
(* String helpers (JavaScript String / path semantics).                    *)
(***************************************************************************)
Null == "null"

\* s.startsWith(p)
StartsWith(s, p) == Len(s) >= Len(p) /\ SubSeq(s, 1, Len(p)) = p

\* positions at which p occurs in s
Occurrences(s, p) ==
  {i \in 1..Len(s) : i + Len(p) - 1 <= Len(s) /\ SubSeq(s, i, i + Len(p) - 1) = p}

\* s.includes(p)
Includes(s, p) == Occurrences(s, p) # {}

\* s.indexOf(p), 1-based; 0 when absent
IndexOf(s, p) ==
  IF Occurrences(s, p) = {} THEN 0
  ELSE CHOOSE i \in Occurrences(s, p) : \A j \in Occurrences(s, p) : i <= j

\* path.dirname for an absolute path without trailing slash
Dirname(p) ==
  LET slashes == Occurrences(p, "/")
      last == CHOOSE i \in slashes : \A j \in slashes : j <= i
  IN SubSeq(p, 1, last - 1)

\* the directory itself and its ancestors, "" being the filesystem root
Ancestors(dir) ==
  {dir} \cup {SubSeq(dir, 1, i - 1) : i \in Occurrences(dir, "/")}

(***************************************************************************)
(* The environment: directories and installed copies.                      *)
(***************************************************************************)
EntrySuffix == "/node_modules/neoai/bin/neoai.js"

GlobalDir == "/usr/lib"
WsDirs == {"/p/ws", "/my.neoai/ws"}
DevFile == "/repo/build/neoai/bin/neoai.js"

GlobalFile == GlobalDir \o EntrySuffix
RootFile(dir) == dir \o EntrySuffix
ManagedFile(dir) == dir \o "/.neoai/installation" \o EntrySuffix

\* require.resolve('neoai/bin/neoai.js', {paths: [start]}): the node_modules
\* hierarchy is searched from start upwards; "null" stands for the throw
NodeResolve(files, start) ==
  LET hits == {d \in Ancestors(start) : (d \o EntrySuffix) \in files}
  IN IF hits = {} THEN Null
     ELSE (CHOOSE d \in hits : \A e \in hits : Len(e) <= Len(d)) \o EntrySuffix

getNeoaiInstallationPath(root) == root \o "/.neoai/installation"

\* join(__dirname, '../../../') of the running entry file
globalsRoot(file) == Dirname(Dirname(Dirname(Dirname(file))))

\* resolveNeoai(workspace): root is workspace.dir, or globalsRoot for null;
\* the result "null" stands for the exception of the second require.resolve
resolveNeoai(files, root) ==
  LET managed == NodeResolve(files, getNeoaiInstallationPath(root))
  IN IF managed # Null THEN managed ELSE NodeResolve(files, root)

(***************************************************************************)
(* Command tokens.                                                         *)
(***************************************************************************)
Undefined == "undefined"

neoaiCloudCommands ==
  {"start-ci-run", "login", "logout", "connect", "view-logs", "fix-ci", "record"}

isNeoaiCloudCommand(command) == command \in neoaiCloudCommands

\* the commands of lines 27-30 and graph
SkipPlatformCommands_AndGraph ==
  {"report", "--version", "--help", "reset", "graph"}

SkipPlatformCommands == {"report", "--version", "--help", "reset"}

ExemptCommands == {"new", "_migrate", "init"}

AngularCommands ==
  {"analytics", "cache", "completion", "config", "doc", "update"}

Commands ==
  neoaiCloudCommands \cup SkipPlatformCommands \cup ExemptCommands
    \cup {"graph", "build", "run", "update", "cache", "config", Undefined}

NoWorkspace == [dir |-> Null, type |-> Null]

\* version strings "<major>.0.0" and semver's major()
Digits == <<"1", "2", "3", "4", "5", "6", "7", "8", "9">>

VersionStr(m) == Digits[m] \o ".0.0"

Versions == {VersionStr(m) : m \in 1..MaxMajor}

major(version) ==
  LET lead == SubSeq(version, 1, IndexOf(version, ".") - 1)
  IN CHOOSE m \in 1..Len(Digits) : Digits[m] = lead

VARIABLES
  argv1,          \* process.argv[1]: the entry file the process was started on
  argv2,          \* process.argv[2]
  argvRest,       \* process.argv.slice(3), fixed when initLocal first reads it
  platformOk,     \* whether assertSupportedPlatform() returns
  cwdWorkspace,   \* what findWorkspaceRoot(process.cwd()) finds
  files,          \* the installed entry files on disk
  daemonOn,       \* whether the daemon is enabled unless NEOAI_DAEMON forbids
  NEOAI_DAEMON,   \* process.env.NEOAI_DAEMON
  NEOAI_CLI_SET,  \* process.env.NEOAI_CLI_SET
  copy,           \* __filename of the copy whose main is running
  loaded,         \* require.cache: the entry modules loaded so far
  pc,             \* position in main / initLocal of the running copy
  workspace,      \* main: workspace
  localNeoai,     \* main: localNeoai
  selfNeoai,      \* main: value of resolveNeoai(null)
  isLocalInstall, \* main: isLocalInstall
  LOCAL_NEOAI_VERSION,
  GLOBAL_NEOAI_VERSION,
  globalThisVersion, \* globalThis.GLOBAL_NEOAI_VERSION
  cache,          \* the memo cell of getLatestVersionOfNeoai
  exitCode,       \* argument of process.exit, -1 while running
  required,       \* the modules main has handed control to, in order
  engineCall,     \* the last call of the command engine: mode and arguments
  log,            \* the observable steps taken so far, in order
  postinstallTimeout, \* post-install: the watchdog timer of lines 16-19
  elapsed,        \* post-install: the 30 seconds of the timer have passed
  handlers        \* post-install: lines 52-60 have registered the handlers

vars ==
  <<argv1, argv2, argvRest, platformOk, cwdWorkspace, files, daemonOn, NEOAI_DAEMON,
    NEOAI_CLI_SET, copy, loaded, pc, workspace, localNeoai, selfNeoai,
    isLocalInstall, LOCAL_NEOAI_VERSION, GLOBAL_NEOAI_VERSION,
    globalThisVersion, cache, exitCode, required, engineCall, log,
    postinstallTimeout, elapsed, handlers>>

\* the state of the post-install script
timers == <<postinstallTimeout, elapsed, handlers>>

\* the process is not the post-install script
NoPostInstall ==
  postinstallTimeout = "null" /\ elapsed = FALSE /\ handlers = FALSE

\* what the invocation is given and never changes
given == <<argv1, argv2, platformOk, cwdWorkspace, files, daemonOn>>

\* the local variables of main
locals ==
  <<workspace, localNeoai, selfNeoai, isLocalInstall, LOCAL_NEOAI_VERSION,
    GLOBAL_NEOAI_VERSION>>

Ev(what) == [copy |-> copy, what |-> what]

\* the steps of the log, without the copy that took them
Whats == [i \in 1..Len(log) |-> log[i].what]

Happened(what) == \E i \in 1..Len(log) : log[i].what = what

HappenedIn(c, what) == \E i \in 1..Len(log) : log[i] = [copy |-> c, what |-> what]

\* every occurrence of a precedes every occurrence of b
Before(a, b) ==
  \A i, j \in 1..Len(log) : (log[i].what = a /\ log[j].what = b) => i < j

Count(what) == Cardinality({i \in 1..Len(log) : log[i].what = what})

(***************************************************************************)
(* Initial states: one invocation of the entry file of some copy.          *)
(***************************************************************************)
Workspaces == [dir : WsDirs, type : {"nx", "angular"}]

\* the copies that may be installed for the directory dir: the global one,
\* the root install and the managed installation of dir
Installable(dir) == {GlobalFile, RootFile(dir), ManagedFile(dir)}

\* what the parent directory of dir may hold: nothing, a root install (to
\* which the lookup from dir walks up), or a root install and a managed one
ParentInstalls(dir) ==
  {{}, {RootFile(Dirname(dir))},
   {RootFile(Dirname(dir)), ManagedFile(Dirname(dir))}}

\* the directory the process is started in
Cwd == IF cwdWorkspace = NoWorkspace THEN "/p/ws" ELSE cwdWorkspace.dir

Init ==
  /\ argv2 \in Commands
  /\ argvRest = <<Undefined>>
  /\ platformOk \in BOOLEAN
  /\ cwdWorkspace \in Workspaces \cup {NoWorkspace}
  /\ \E own \in SUBSET Installable(Cwd), above \in ParentInstalls(Cwd) :
       files = own \cup above
  /\ daemonOn \in BOOLEAN
  /\ NEOAI_DAEMON = Undefined
  /\ NEOAI_CLI_SET \in {Undefined, "true"}
  /\ argv1 \in (files \cap Installable(Cwd)) \cup {DevFile}
  /\ copy = argv1
  /\ loaded = {argv1}
  /\ pc = "main"
  /\ workspace = [dir |-> Undefined, type |-> Undefined]
  /\ localNeoai = Undefined
  /\ selfNeoai = Undefined
  /\ isLocalInstall = FALSE
  /\ LOCAL_NEOAI_VERSION = Undefined
  /\ GLOBAL_NEOAI_VERSION = Undefined
  /\ globalThisVersion = Undefined
  /\ cache = Null
  /\ exitCode = -1
  /\ required = <<>>
  /\ engineCall = [mode |-> Undefined, args |-> <<>>]
  /\ log = <<>>
  /\ NoPostInstall

(***************************************************************************)
(* Helpers shared by the steps.                                            *)
(***************************************************************************)
\* process.exit(code)
Exit(code, events) ==
  /\ pc' = "exited"
  /\ exitCode' = code
  /\ log' = log \o events \o <<Ev("process.exit")>>

\* an exception leaves main: the promise it returned rejects
Reject(events) ==
  /\ pc' = "rejected"
  /\ log' = log \o events
  /\ UNCHANGED exitCode

\* JavaScript truthiness of a string-or-null value
Truthy(v) == v \notin {Null, Undefined, ""}

\* daemonClient.enabled()
daemonEnabled == NEOAI_DAEMON # "false" /\ daemonOn

(***************************************************************************)
(* main, src/bin/neoai.ts                                                  *)
(***************************************************************************)
\* lines 26-35: the platform check
PlatformCheck ==
  /\ pc = "main"
  /\ IF argv2 \notin SkipPlatformCommands
       THEN IF platformOk
              THEN /\ pc' = "lookup"
                   /\ log' = log \o <<Ev("assertSupportedPlatform")>>
                   /\ UNCHANGED exitCode
              ELSE Reject(<<Ev("assertSupportedPlatform")>>)
       ELSE /\ pc' = "lookup"
            /\ UNCHANGED <<log, exitCode>>
  /\ UNCHANGED <<timers, given, argvRest, NEOAI_DAEMON, NEOAI_CLI_SET, copy, loaded,
                 locals, globalThisVersion, cache, required, engineCall>>

\* lines 37-48: workspace lookup and the root env files
WorkspaceLookup ==
  /\ pc = "lookup"
  /\ workspace' = cwdWorkspace
  /\ log' = log \o <<Ev("findWorkspaceRoot")>>
            \o (IF cwdWorkspace # NoWorkspace THEN <<Ev("loadRootEnvFiles")>>
                ELSE <<>>)
  /\ pc' = "classify"
  /\ UNCHANGED <<timers, given, argvRest, NEOAI_DAEMON, NEOAI_CLI_SET, copy, loaded,
                 localNeoai, selfNeoai, isLocalInstall, LOCAL_NEOAI_VERSION,
                 GLOBAL_NEOAI_VERSION, globalThisVersion, cache, exitCode,
                 required, engineCall>>

\* the condition of lines 51-56 without the workspace test on graph
isExempt_GraphAlways ==
  \/ argv2 = "new"
  \/ argv2 = "_migrate"
  \/ argv2 = "init"
  \/ argv2 = "graph"

\* the condition of lines 51-56
isExempt ==
  \/ argv2 = "new"
  \/ argv2 = "_migrate"
  \/ argv2 = "init"
  \/ (argv2 = "graph" /\ workspace = NoWorkspace)

\* require('neoai/src/command-line/neoai-commands').commandsObject.argv
\* in main: the engine runs, or throws out of main
EngineInMain(before) ==
  /\ engineCall' = [mode |-> "argv", args |-> <<>>]
  /\ \E throws \in BOOLEAN :
       IF throws
         THEN Reject(before \o <<Ev("engine")>>)
         ELSE /\ pc' = "done"
              /\ log' = log \o before \o <<Ev("engine")>>
              /\ UNCHANGED exitCode

\* lines 51-58: new, _migrate, init, graph without workspace
RunExempt ==
  /\ pc = "classify"
  /\ isExempt
  /\ NEOAI_DAEMON' = "false"
  /\ EngineInMain(<<Ev("NEOAI_DAEMON=false")>>)
  /\ UNCHANGED <<timers, given, argvRest, NEOAI_CLI_SET, copy, loaded, locals,
                 globalThisVersion, cache, required>>

\* lines 60-67: workspace context unless the daemon serves it
SetupContext ==
  /\ pc = "classify"
  /\ ~isExempt
  /\ log' = log \o <<Ev("daemonClient.enabled")>>
            \o (IF ~daemonEnabled /\ workspace # NoWorkspace
                  THEN <<Ev("setupWorkspaceContext")>> ELSE <<>>)
  /\ pc' = "resolve"
  /\ UNCHANGED <<timers, given, argvRest, NEOAI_DAEMON, NEOAI_CLI_SET, copy, loaded,
                 locals, globalThisVersion, cache, exitCode, required,
                 engineCall>>

\* the local resolution attempted from the working directory, workspace or not
resolveLocal_FromCwd(ws) == resolveNeoai(files, Cwd)

\* lines 70-75: localNeoai = workspace && resolveNeoai(workspace), null
\* when the resolution throws
resolveLocal(ws) ==
  IF ws = NoWorkspace THEN Null ELSE resolveNeoai(files, ws.dir)

\* lines 69-77: local and self resolution; only the local one is guarded
ResolveInstallations ==
  /\ pc = "resolve"
  /\ LET local == resolveLocal(workspace)
         self == resolveNeoai(files, globalsRoot(copy))
         events == (IF workspace # NoWorkspace
                      THEN <<Ev("resolveNeoai(workspace)")>> ELSE <<>>)
                   \o <<Ev("resolveNeoai(null)")>>
     IN /\ localNeoai' = local
        /\ selfNeoai' = self
        /\ IF self = Null
             THEN /\ Reject(events)
                  /\ UNCHANGED isLocalInstall
             ELSE /\ isLocalInstall' = (local = self)
                  /\ pc' = "versions"
                  /\ log' = log \o events
                  /\ UNCHANGED exitCode
  /\ UNCHANGED <<timers, given, argvRest, NEOAI_DAEMON, NEOAI_CLI_SET, copy, loaded,
                 workspace, LOCAL_NEOAI_VERSION, GLOBAL_NEOAI_VERSION,
                 globalThisVersion, cache, required, engineCall>>

\* lines 78-82 and 147-161: determineNeoaiVersions; getLocalNeoaiVersion
\* yields undefined when the package.json cannot be read
DetermineVersions ==
  /\ pc = "versions"
  /\ IF Truthy(localNeoai)
       THEN LOCAL_NEOAI_VERSION' \in Versions \cup {Undefined}
       ELSE LOCAL_NEOAI_VERSION' = Null
  /\ IF isLocalInstall
       THEN GLOBAL_NEOAI_VERSION' = Null
       ELSE GLOBAL_NEOAI_VERSION' \in Versions
  /\ globalThisVersion' =
       IF globalThisVersion \in {Null, Undefined} THEN GLOBAL_NEOAI_VERSION'
       ELSE globalThisVersion
  /\ log' = log \o <<Ev("determineNeoaiVersions")>>
  /\ pc' = "dispatch"
  /\ UNCHANGED <<timers, given, argvRest, NEOAI_DAEMON, NEOAI_CLI_SET, copy, loaded,
                 workspace, localNeoai, selfNeoai, isLocalInstall, cache,
                 exitCode, required, engineCall>>

\* lines 272-295: getLatestVersionOfNeoai, cache || (cache = fn()); the
\* possible results, with the memo cell after the call and the steps taken
LatestOutcomes ==
  IF Truthy(cache)
    THEN {[value |-> cache, cache |-> cache,
           events |-> <<Ev("getLatestVersionOfNeoai")>>]}
    ELSE {[value |-> v, cache |-> v,
           events |-> <<Ev("getLatestVersionOfNeoai"),
                        Ev("_getLatestVersionOfNeoai")>>] :
            v \in Versions \cup {Null}}

\* the comparison of lines 249 and 257 with <= for <
isBehind_OrLevel(version, other) == major(version) <= major(other)

\* lines 249 and 257: at least one major version behind
isBehind(version, other) == major(version) < major(other)

\* lines 239-260: checkOutdatedGlobalInstallation
OutdatedOutcomes(globalNeoaiVersion, localNeoaiVersion) ==
  IF ~Truthy(globalNeoaiVersion)
    THEN {[outdated |-> FALSE, cache |-> cache, events |-> <<>>]}
    ELSE IF Truthy(localNeoaiVersion)
      THEN {[outdated |-> isBehind(globalNeoaiVersion, localNeoaiVersion),
             cache |-> cache, events |-> <<>>]}
      ELSE {[outdated |-> (Truthy(o.value)
                           /\ isBehind(globalNeoaiVersion, o.value)),
             cache |-> o.cache, events |-> o.events] : o \in LatestOutcomes}

\* lines 207-237: warnIfUsingOutdatedGlobalInstall
WarnOutcomes(globalNeoaiVersion, localNeoaiVersion) ==
  IF Truthy(NEOAI_CLI_SET)
    THEN {[cache |-> cache,
           events |-> <<Ev("warnIfUsingOutdatedGlobalInstall")>>]}
    ELSE {[cache |-> o.cache,
           events |-> <<Ev("warnIfUsingOutdatedGlobalInstall")>> \o o.events
                      \o (IF o.outdated THEN <<Ev("output.warn")>> ELSE <<>>)] :
            o \in OutdatedOutcomes(globalNeoaiVersion, localNeoaiVersion)}

\* lines 84-86 and 137-145: --version prints both versions and exits 0
Shown(version) == IF Truthy(version) THEN "v" \o version ELSE "Not found"

VersionCommand ==
  /\ pc = "dispatch"
  /\ argv2 = "--version"
  /\ Exit(0, <<Ev("Neoai Version: - Local: " \o Shown(LOCAL_NEOAI_VERSION)
                  \o " - Global: " \o Shown(GLOBAL_NEOAI_VERSION))>>)
  /\ UNCHANGED <<timers, given, argvRest, NEOAI_DAEMON, NEOAI_CLI_SET, copy, loaded,
                 locals, globalThisVersion, cache, required, engineCall>>

\* lines 88-90 and 116-135: handleNoWorkspace
NoWorkspaceExit ==
  /\ pc = "dispatch"
  /\ argv2 # "--version"
  /\ workspace = NoWorkspace
  /\ \E w \in WarnOutcomes(GLOBAL_NEOAI_VERSION, Undefined) :
       /\ cache' = w.cache
       /\ Exit(1, <<Ev("output.log: The current directory isn't part of an Neoai workspace.")>>
                  \o w.events)
  /\ UNCHANGED <<timers, given, argvRest, NEOAI_DAEMON, NEOAI_CLI_SET, copy, loaded,
                 locals, globalThisVersion, required, engineCall>>

\* the title printed by handleMissingLocalInstallation, lines 194-199
MissingTitle(detectedWorkspaceRoot) ==
  IF Truthy(detectedWorkspaceRoot)
    THEN "output.error: Could not find Neoai modules at \""
           \o detectedWorkspaceRoot \o "\"."
    ELSE "output.error: Could not find Neoai modules in this workspace."

\* lines 92-94 and 193-201: handleMissingLocalInstallation
MissingLocalExit ==
  /\ pc = "dispatch"
  /\ argv2 # "--version"
  /\ workspace # NoWorkspace
  /\ ~Truthy(localNeoai) /\ ~isNeoaiCloudCommand(argv2)
  /\ Exit(1, <<Ev(MissingTitle(IF workspace # NoWorkspace THEN workspace.dir
                               ELSE Null))>>)
  /\ UNCHANGED <<timers, given, argvRest, NEOAI_DAEMON, NEOAI_CLI_SET, copy, loaded,
                 locals, globalThisVersion, cache, required, engineCall>>

\* main gets past line 94 also without a local installation
PastExits_WithoutLocal ==
  /\ pc = "dispatch"
  /\ argv2 # "--version"
  /\ workspace # NoWorkspace

\* main gets past the three exits of lines 84-94
PastExits ==
  /\ pc = "dispatch"
  /\ argv2 # "--version"
  /\ workspace # NoWorkspace
  /\ (Truthy(localNeoai) \/ isNeoaiCloudCommand(argv2))

\* lines 97-100: cloud commands run in this process
RunCloud ==
  /\ PastExits
  /\ isNeoaiCloudCommand(argv2)
  /\ NEOAI_DAEMON' = "false"
  /\ EngineInMain(<<Ev("NEOAI_DAEMON=false")>>)
  /\ UNCHANGED <<timers, given, argvRest, NEOAI_CLI_SET, copy, loaded, locals,
                 globalThisVersion, cache, required>>

\* line 101 with the test on localNeoai instead of isLocalInstall
RouteIsLocal_AnyLocal == ~isNeoaiCloudCommand(argv2) /\ Truthy(localNeoai)

\* lines 97 and 101: the branch of the copy that is the local one
RouteIsLocal == ~isNeoaiCloudCommand(argv2) /\ isLocalInstall

\* lines 101-102: this copy is the local one
RunLocal ==
  /\ PastExits
  /\ RouteIsLocal
  /\ pc' = "initLocal"
  /\ log' = log \o <<Ev("initLocal")>>
  /\ UNCHANGED <<timers, given, argvRest, NEOAI_DAEMON, NEOAI_CLI_SET, copy, loaded,
                 locals, globalThisVersion, cache, exitCode, required,
                 engineCall>>

\* the module at file is required: a module already in require.cache is not
\* run again; otherwise its top level runs, and with it the call of main at
\* lines 301-304, in a fresh module scope
LoadEntry(file, events) ==
  IF file \in loaded
    THEN /\ pc' = "done"
         /\ log' = log \o events
         /\ UNCHANGED <<copy, loaded, locals, exitCode>>
    ELSE /\ pc' = "main"
         /\ copy' = file
         /\ loaded' = loaded \cup {file}
         /\ workspace' = [dir |-> Undefined, type |-> Undefined]
         /\ localNeoai' = Undefined
         /\ selfNeoai' = Undefined
         /\ isLocalInstall' = FALSE
         /\ LOCAL_NEOAI_VERSION' = Undefined
         /\ GLOBAL_NEOAI_VERSION' = Undefined
         /\ log' = log \o events
         /\ UNCHANGED exitCode

\* line 107: localNeoai.replace(/\.neoai.*/, '.neoai/') + 'neoaiw.js'
neoaiWrapperPath(path) ==
  SubSeq(path, 1, IndexOf(path, ".neoai") - 1) \o ".neoai/" \o "neoaiw.js"

\* the wrapper of a managed installation sits next to its installation
WrapperInstalled(path) ==
  \E f \in files :
    \E d \in Ancestors(f) :
      f = ManagedFile(d) /\ path = d \o "/.neoai/neoaiw.js"

\* the branch of line 103 taken without regard to isLocalInstall
RouteIsOther_IgnoringLocal == ~isNeoaiCloudCommand(argv2)

\* lines 97, 101 and 103: the last branch of the chain
RouteIsOther == ~isNeoaiCloudCommand(argv2) /\ ~isLocalInstall

\* lines 103-111: the global copy hands over to the local one
Delegate ==
  /\ PastExits
  /\ RouteIsOther
  /\ IF Truthy(localNeoai)
       THEN \E w \in WarnOutcomes(GLOBAL_NEOAI_VERSION, LOCAL_NEOAI_VERSION) :
              IF Includes(localNeoai, ".neoai")
                THEN /\ required' = Append(required, neoaiWrapperPath(localNeoai))
                     /\ cache' = w.cache
                     /\ IF WrapperInstalled(neoaiWrapperPath(localNeoai))
                          THEN /\ pc' = "wrapper"
                               /\ log' = log \o w.events
                                         \o <<Ev("require(neoaiWrapperPath)")>>
                               /\ UNCHANGED exitCode
                          ELSE Reject(w.events \o <<Ev("require(neoaiWrapperPath)")>>)
                     /\ UNCHANGED <<copy, loaded, locals>>
                ELSE /\ required' = Append(required, localNeoai)
                     /\ cache' = IF localNeoai \in loaded THEN w.cache ELSE Null
                     /\ LoadEntry(localNeoai,
                                  w.events \o <<Ev("require(localNeoai)")>>)
       ELSE /\ pc' = "done"
            /\ UNCHANGED <<copy, loaded, locals, cache, exitCode, required, log>>
  /\ UNCHANGED <<timers, given, argvRest, NEOAI_DAEMON, NEOAI_CLI_SET,
                 globalThisVersion, engineCall>>

\* .neoai/neoaiw.js: the wrapper requires the entry of its installation
RunWrapper ==
  /\ pc = "wrapper"
  /\ LET entry == Dirname(required[Len(required)]) \o "/installation"
                    \o EntrySuffix
     IN /\ cache' = IF entry \in loaded THEN cache ELSE Null
        /\ LoadEntry(entry, <<Ev("require(installation)")>>)
  /\ UNCHANGED <<timers, given, argvRest, NEOAI_DAEMON, NEOAI_CLI_SET,
                 globalThisVersion, required, engineCall>>

\* lines 301-304: main().catch
TopLevelCatch ==
  /\ pc = "rejected"
  /\ Exit(1, <<Ev("console.error")>>)
  /\ UNCHANGED <<timers, given, argvRest, NEOAI_DAEMON, NEOAI_CLI_SET, copy, loaded,
                 locals, globalThisVersion, cache, required, engineCall>>

(***************************************************************************)
(* initLocal and rewriteTargetsAndProjects, bin/init-local                 *)
(***************************************************************************)
\* the flags of lines 67-73 without --targets
CollectorFlags_WithoutTargets ==
  {"-p", "--projects", "--exclude", "--files", "-t", "--target"}

CollectorFlags ==
  {"-p", "--projects", "--exclude", "--files", "-t", "--target", "--targets"}

\* items.join(',')
RECURSIVE Join(_)
Join(items) ==
  IF items = <<>> THEN ""
  ELSE IF Len(items) = 1 THEN items[1]
  ELSE items[1] \o "," \o Join(Tail(items))

\* lines 78-81: the index after the run of tokens not starting with '-'
RECURSIVE EndOfItems(_, _)
EndOfItems(args, i) ==
  IF i <= Len(args) /\ ~StartsWith(args[i], "-")
    THEN EndOfItems(args, i + 1) ELSE i

\* lines 63-87: the scanning loop; args[i] is here the token the source
\* calls args[i - 1]
RECURSIVE Scan(_, _, _)
Scan(args, i, newArgs) ==
  IF i > Len(args) THEN newArgs
  ELSE IF args[i] = "--" THEN newArgs \o SubSeq(args, i, Len(args))
  ELSE IF args[i] \in CollectorFlags
    THEN LET j == EndOfItems(args, i + 1)
         IN Scan(args, j,
                 newArgs \o <<args[i], Join(SubSeq(args, i + 1, j - 1))>>)
  ELSE Scan(args, i + 1, Append(newArgs, args[i]))

\* lines 60-89
rewriteTargetsAndProjects(args) ==
  Scan(args, 4, <<IF Len(args) >= 3 THEN args[3] ELSE Undefined>>)

\* Array.prototype.indexOf, 1-based; 0 when absent
SeqIndexOf(seq, x) ==
  IF \E i \in 1..Len(seq) : seq[i] = x
    THEN CHOOSE i \in 1..Len(seq) :
           seq[i] = x /\ \A j \in 1..(i - 1) : seq[j] # x
    ELSE 0

\* the handlers registered with the command engine
CommandHandlers ==
  {"build", "graph", "report", "reset", "new", "init", "_migrate"}
    \cup neoaiCloudCommands

\* lines 91-109
isKnownCommand(command) ==
  \/ command = Undefined
  \/ StartsWith(command, "-")
  \/ command \in CommandHandlers \cup
       {"g", "dep-graph", "affected:dep-graph", "format",
        "workspace-schematic", "connect-to-neoai-cloud", "clear-cache", "help"}

\* lines 111-122
shouldDelegateToAngularCLI == argv2 \in AngularCommands

\* the tails of process.argv after the command token
ArgTails ==
  {<<>>, <<"--help">>, <<"--", "--help">>, <<"-p", "a", "b", "--help">>}

\* process.argv
argv == <<"node", argv1>>
          \o (IF argv2 = Undefined THEN <<>> ELSE <<argv2>> \o argvRest)

\* lines 124-171: handleAngularCLIFallbacks, the fall-backs of the legacy CLI
AngularFallbacks(events) ==
  \E force, found \in BOOLEAN :
    IF argv2 = "update" /\ ~force
      THEN /\ pc' = "done"
           /\ log' = log \o events \o <<Ev("console.log: ng update")>>
           /\ UNCHANGED exitCode
    ELSE IF argv2 = "completion"
      THEN /\ pc' = "done"
           /\ log' = log \o events
                     \o (IF Len(argv') < 4
                           THEN <<Ev("console.log: ng completion")>> ELSE <<>>)
           /\ UNCHANGED exitCode
    ELSE IF argv2 = "cache"
      THEN /\ pc' = "done"
           /\ log' = log \o events \o <<Ev("console.log: ng cache")>>
           /\ UNCHANGED exitCode
    ELSE IF found
      THEN /\ pc' = "done"
           /\ log' = log \o events \o <<Ev("require(@angular/cli)")>>
           /\ UNCHANGED exitCode
      ELSE Exit(1, events \o <<Ev("console.error: @angular/cli not found")>>)

\* lines 13-37: up to the await of ensureNeoaiConsoleInstalled
InitLocalStart ==
  /\ pc = "initLocal"
  /\ NEOAI_CLI_SET' = "true"
  /\ argvRest' \in (IF argv2 = Undefined THEN {<<>>} ELSE ArgTails)
  /\ IF workspace.type # "nx" /\ shouldDelegateToAngularCLI
       THEN AngularFallbacks(<<Ev("console.warn: deprecated")>>)
       ELSE /\ pc' = "initLocalRun"
            /\ log' = log \o <<Ev("ensureNeoaiConsoleInstalled")>>
            /\ UNCHANGED exitCode
  /\ UNCHANGED <<timers, given, NEOAI_DAEMON, copy, loaded, locals, globalThisVersion,
                 cache, required, engineCall>>

\* lines 39-53: the call of the command engine
EngineCallOf(command) ==
  IF command = "run" \/ command = "g" \/ command = "generate"
    THEN [mode |-> "parse", args |-> SubSeq(argv, 3, Len(argv))]
  ELSE IF isKnownCommand(command)
    THEN LET newArgs == rewriteTargetsAndProjects(argv)
             help == SeqIndexOf(newArgs, "--help")
             split == SeqIndexOf(newArgs, "--")
         IN IF help > 0 /\ (split = 0 \/ split > help)
              THEN [mode |-> "showHelp", args |-> <<>>]
              ELSE [mode |-> "parse", args |-> newArgs]
  ELSE [mode |-> "parse", args |-> SubSeq(argv, 3, Len(argv))]

\* lines 39-57: the engine is called; what it throws ends the process
InitLocalRun ==
  /\ pc = "initLocalRun"
  /\ engineCall' = EngineCallOf(argv2)
  /\ \E throws \in BOOLEAN :
       IF throws
         THEN Exit(1, <<Ev("engine"), Ev("console.error")>>)
         ELSE /\ pc' = "done"
              /\ log' = log \o <<Ev("engine")>>
              /\ UNCHANGED exitCode
  /\ UNCHANGED <<timers, given, argvRest, NEOAI_DAEMON, NEOAI_CLI_SET, copy, loaded,
                 locals, globalThisVersion, cache, required>>

(***************************************************************************)
(* The dispatcher as a whole.                                              *)
(***************************************************************************)
Next ==
  \/ PlatformCheck
  \/ WorkspaceLookup
  \/ RunExempt
  \/ SetupContext
  \/ ResolveInstallations
  \/ DetermineVersions
  \/ VersionCommand
  \/ NoWorkspaceExit
  \/ MissingLocalExit
  \/ RunCloud
  \/ RunLocal
  \/ Delegate
  \/ RunWrapper
  \/ TopLevelCatch
  \/ InitLocalStart
  \/ InitLocalRun

Spec == Init /\ [][Next]_vars

(***************************************************************************)
(* Vocabulary of the properties.                                           *)
(***************************************************************************)
\* the classes of section 4.1, from the command token and the lookup result
WorkspaceExempt ==
  argv2 \in ExemptCommands \/ (argv2 = "graph" /\ cwdWorkspace = NoWorkspace)

CloudOnly == argv2 \in neoaiCloudCommands

Normal == ~WorkspaceExempt /\ ~CloudOnly

\* the process has ended: main and initLocal ran to their end, or process.exit
Terminated == pc \in {"done", "exited"}

\* the running copy has found a workspace
WorkspaceDetected == workspace \in Workspaces

\* the guidance of ExitNoWorkspace and the diagnostic of ExitMissingLocal
NoWorkspaceGuidance ==
  "output.log: The current directory isn't part of an Neoai workspace."

MissingLocalDiagnostics == {MissingTitle(d) : d \in WsDirs \cup {Null}}

ReachedExitNoWorkspace == Happened(NoWorkspaceGuidance)

ReachedExitMissingLocal ==
  \E i \in 1..Len(log) : log[i].what \in MissingLocalDiagnostics

HandOffs == {"require(localNeoai)", "require(neoaiWrapperPath)"}

\* the steps of the log taken by the copy c
StepsOf(c) == {log[i].what : i \in {j \in 1..Len(log) : log[j].copy = c}}

\* the copies that invoked the command engine
EngineCopies == {log[i].copy : i \in {j \in 1..Len(log) : log[j].what = "engine"}}

\* what the starting copy resolves: localPath and selfPath of section 3
LocalPath ==
  IF cwdWorkspace = NoWorkspace THEN Null
  ELSE resolveNeoai(files, cwdWorkspace.dir)

SelfPath == resolveNeoai(files, globalsRoot(argv1))

FlagSetBefore(what) ==
  \A i \in 1..Len(log) :
    log[i].what = what =>
      \E j \in 1..(i - 1) : log[j].what = "NEOAI_DAEMON=false"

(***************************************************************************)
(* C2                                                                      *)
(***************************************************************************)
\* C2: a CloudOnly command on a supported platform, with no workspace and no
\* local installation, never reaches ExitNoWorkspace or ExitMissingLocal and
\* ends with the command engine invoked in the current process. Stated for
\* the invocations whose self resolution succeeds, so that the violation
\* found is not the one of the unguarded resolveNeoai(null).
C2_CloudWithoutWorkspaceInProcess ==
  (CloudOnly /\ platformOk /\ cwdWorkspace = NoWorkspace /\ LocalPath = Null
     /\ SelfPath # Null)
    => /\ ~ReachedExitNoWorkspace
       /\ ~ReachedExitMissingLocal
       /\ (Terminated => Happened("engine"))

(***************************************************************************)
(* C3                                                                      *)
(***************************************************************************)
\* C3: a Normal-class command on a supported platform with no workspace ends
\* in ExitNoWorkspace: the guidance is printed, the exit code is 1, and
\* neither the engine is invoked nor control handed to another copy.
C3_NormalWithoutWorkspaceExits ==
  (Normal /\ platformOk /\ cwdWorkspace = NoWorkspace /\ Terminated)
    => /\ ReachedExitNoWorkspace
       /\ exitCode = 1
       /\ ~Happened("engine") /\ ~Happened("initLocal")
       /\ required = <<>>

\* what C3 says holds of every command other than --version whenever the
\* self resolution of line 77 succeeds
C3_WhenSelfResolves ==
  (Normal /\ argv2 # "--version" /\ platformOk /\ cwdWorkspace = NoWorkspace
     /\ SelfPath # Null /\ Terminated)
    => /\ ReachedExitNoWorkspace
       /\ exitCode = 1
       /\ ~Happened("engine") /\ ~Happened("initLocal")
       /\ required = <<>>

(***************************************************************************)
(* C4                                                                      *)
(***************************************************************************)
\* C4: a copy that gets to the routing of lines 97-112 with localNeoai equal
\* to its self resolution (isLocalInstall true) runs the command in process,
\* through initLocal or the command engine, and never hands control over.
C4_LocalInstallRunsInProcess ==
  (isLocalInstall /\ argv2 # "--version" /\ pc \notin {"versions", "dispatch"})
    => /\ ("initLocal" \in StepsOf(copy) \/ "engine" \in StepsOf(copy))
       /\ StepsOf(copy) \cap HandOffs = {}
       /\ ~ReachedExitNoWorkspace /\ ~ReachedExitMissingLocal

\* the starting copy is the local one and has run the engine through initLocal
C4_Witness ==
  /\ isLocalInstall /\ copy = argv1
  /\ pc = "done"
  /\ {"initLocal", "engine"} \subseteq StepsOf(copy)

(***************************************************************************)
(* C5                                                                      *)
(***************************************************************************)
\* the wrapper entry of the workspace and the paths under its marker directory
WrapperEntry == cwdWorkspace.dir \o "/.neoai/neoaiw.js"

UnderMarkerDirectory(path) == StartsWith(path, cwdWorkspace.dir \o "/.neoai/")

\* the starting copy got to the routing with a local copy other than itself
RoutedToOtherCopy ==
  /\ platformOk \/ argv2 \in SkipPlatformCommands
  /\ cwdWorkspace # NoWorkspace
  /\ LocalPath # Null /\ SelfPath # Null /\ SelfPath # LocalPath

\* the target of the hand-off that C5 expects
ExpectedTarget ==
  IF UnderMarkerDirectory(LocalPath) THEN WrapperEntry ELSE LocalPath

\* C5: a Normal-class command with a workspace, a local installation and
\* isLocalInstall false reaches Delegate: the outdated-global check runs
\* before control is handed over, the target is the wrapper entry when
\* localNeoai lies under the marker directory of the managed installation and
\* localNeoai itself otherwise, and the starting copy does not invoke the
\* engine. Stated for the commands other than --version, which leaves at
\* lines 84-86.
C5_DelegateTarget ==
  (Normal /\ argv2 # "--version") =>
    /\ (Terminated /\ required = <<>>) => ~RoutedToOtherCopy
    /\ (required # <<>> /\ RoutedToOtherCopy) => required[1] = ExpectedTarget
    /\ \A i \in 1..Len(log) :
         log[i].what \in HandOffs =>
           \E j \in 1..(i - 1) :
             log[j].what = "warnIfUsingOutdatedGlobalInstall"
    /\ "engine" \in StepsOf(argv1) => ~RoutedToOtherCopy

\* what C5 says holds when the text ".neoai" does not occur in the path of
\* the workspace directory itself
C5_WhenDirectoryHasNoMarker ==
  (Normal /\ argv2 # "--version") =>
    /\ (Terminated /\ required = <<>>) => ~RoutedToOtherCopy
    /\ (required # <<>> /\ RoutedToOtherCopy /\ ~Includes(Cwd, ".neoai"))
         => required[1] = ExpectedTarget
    /\ \A i \in 1..Len(log) :
         log[i].what \in HandOffs =>
           \E j \in 1..(i - 1) :
             log[j].what = "warnIfUsingOutdatedGlobalInstall"
    /\ "engine" \in StepsOf(argv1) => ~RoutedToOtherCopy

(***************************************************************************)
(* C6                                                                      *)
(***************************************************************************)
\* the steps by which main leaves without running the command
DispatcherExits ==
  HandOffs \cup {NoWorkspaceGuidance} \cup MissingLocalDiagnostics
    \cup {"console.error"}

\* C6: at most one hand-off is made in an invocation; the copy that control
\* was handed to takes no hand-off and no exit of the dispatcher, it gets to
\* initLocal.
C6_SingleHandOff ==
  /\ Len(required) <= 1
  /\ Cardinality({i \in 1..Len(log) : log[i].what \in HandOffs}) <= 1
  /\ copy # argv1 =>
       /\ pc # "rejected"
       /\ argv2 # "--version"
       /\ StepsOf(copy) \cap DispatcherExits \subseteq
            (IF "initLocal" \in StepsOf(copy) THEN {"console.error"} ELSE {})
       /\ (Terminated => "initLocal" \in StepsOf(copy))

\* what C6 says holds when the directory above the local copy, its
\* globalsRoot, holds no managed installation that its own self resolution
\* would prefer to the copy itself
C6_WhenNoManagedInstallationAbove ==
  (\A f \in files : f # ManagedFile(Dirname(Cwd))) =>
    /\ Len(required) <= 1
    /\ Cardinality({i \in 1..Len(log) : log[i].what \in HandOffs}) <= 1
    /\ copy # argv1 =>
         /\ pc # "rejected"
         /\ argv2 # "--version"
         /\ StepsOf(copy) \cap DispatcherExits \subseteq
              (IF "initLocal" \in StepsOf(copy) THEN {"console.error"} ELSE {})
         /\ (Terminated => "initLocal" \in StepsOf(copy))

\* control was handed to the local copy, which has got to initLocal
C6_Witness ==
  /\ copy # argv1
  /\ Happened("require(localNeoai)")
  /\ pc = "initLocalRun"

(***************************************************************************)
(* C7                                                                      *)
(***************************************************************************)
\* C7: a Normal-class command other than --version, with a workspace found
\* and localNeoai null, ends in ExitMissingLocal: the diagnostic naming the
\* workspace root is printed, the exit code is 1, and neither the engine nor
\* initLocal nor a hand-off is reached.
C7_MissingLocalExits ==
  (Normal /\ argv2 # "--version" /\ WorkspaceDetected /\ localNeoai = Null
     /\ Terminated)
    => /\ Happened(MissingTitle(workspace.dir))
       /\ exitCode = 1
       /\ ~Happened("engine") /\ ~Happened("initLocal")
       /\ required = <<>>

\* what C7 says holds whenever the self resolution of line 77 succeeds
C7_WhenSelfResolves ==
  (Normal /\ argv2 # "--version" /\ WorkspaceDetected /\ localNeoai = Null
     /\ SelfPath # Null /\ Terminated)
    => /\ Happened(MissingTitle(workspace.dir))
       /\ exitCode = 1
       /\ ~Happened("engine") /\ ~Happened("initLocal")
       /\ required = <<>>

(***************************************************************************)
(* C8                                                                      *)
(***************************************************************************)
\* the steps of resolution, version determination, routing and exit
AfterClassification ==
  {"daemonClient.enabled", "setupWorkspaceContext", "resolveNeoai(workspace)",
   "resolveNeoai(null)", "determineNeoaiVersions", "initLocal",
   "warnIfUsingOutdatedGlobalInstall", NoWorkspaceGuidance}
    \cup MissingLocalDiagnostics \cup HandOffs

\* C8: new, _migrate and init, and graph without workspace, go on a supported
\* platform straight to the command engine, with NEOAI_DAEMON set to 'false'
\* before it is invoked and without resolution, version determination,
\* ExitNoWorkspace, ExitMissingLocal or Delegate; graph with a workspace is
\* routed as any Normal command, through resolution and initLocal.
C8_ExemptGoesStraightToEngine ==
  /\ (WorkspaceExempt /\ platformOk) =>
       /\ \A i \in 1..Len(log) : log[i].what \notin AfterClassification
       /\ pc \notin {"main", "lookup", "classify"} =>
            /\ Happened("engine")
            /\ FlagSetBefore("engine")
            /\ EngineCopies = {argv1}
  /\ (argv2 = "graph" /\ cwdWorkspace # NoWorkspace) =>
       /\ ~Happened("NEOAI_DAEMON=false")
       /\ Happened("engine") =>
            (Happened("resolveNeoai(null)") /\ Happened("initLocal"))

\* graph was run without workspace, by the engine, in the starting copy
C8_Witness ==
  /\ argv2 = "graph" /\ cwdWorkspace = NoWorkspace
  /\ pc = "done"
  /\ NEOAI_DAEMON = "false"
  /\ Whats = <<"assertSupportedPlatform", "findWorkspaceRoot",
               "NEOAI_DAEMON=false", "engine">>

(***************************************************************************)
(* C9                                                                      *)
(***************************************************************************)
\* the work that presumes the state of the coordination process
WorkAfterFlag ==
  {"daemonClient.enabled", "setupWorkspaceContext", "resolveNeoai(workspace)",
   "resolveNeoai(null)", "determineNeoaiVersions"}

\* C9: for a WorkspaceExempt or CloudOnly command NEOAI_DAEMON is set to
\* 'false' before the coordination process is queried, the workspace context
\* set up, an installation resolved or the versions determined.
C9_FlagBeforeOtherWork ==
  (WorkspaceExempt \/ CloudOnly) =>
    \A what \in WorkAfterFlag : FlagSetBefore(what)

(***************************************************************************)
(* C10                                                                     *)
(***************************************************************************)
\* C10: a CloudOnly command with a workspace found ends, whatever the
\* installations, with the engine invoked in the current process after
\* NEOAI_DAEMON was set to 'false', and reaches neither ExitMissingLocal nor
\* a hand-off nor initLocal.
C10_CloudWithWorkspaceInProcess ==
  (CloudOnly /\ WorkspaceDetected)
    => /\ Terminated =>
            /\ Happened("engine")
            /\ FlagSetBefore("engine")
            /\ EngineCopies = {argv1}
       /\ ~ReachedExitMissingLocal
       /\ required = <<>>
       /\ ~Happened("initLocal")

\* what C10 says holds whenever the self resolution of line 77 succeeds
C10_WhenSelfResolves ==
  (CloudOnly /\ WorkspaceDetected /\ SelfPath # Null)
    => /\ Terminated =>
            /\ Happened("engine")
            /\ FlagSetBefore("engine")
            /\ EngineCopies = {argv1}
       /\ ~ReachedExitMissingLocal
       /\ required = <<>>
       /\ ~Happened("initLocal")

(***************************************************************************)
(* C11                                                                     *)
(***************************************************************************)
\* the first step that the copy c has taken
FirstStepOf(c) ==
  log[CHOOSE i \in 1..Len(log) :
        log[i].copy = c /\ \A j \in 1..(i - 1) : log[j].copy # c].what

\* the command tokens for which C11 says the platform check is skipped
PlatformFree == argv2 \in {"report", "--version", "--help", "reset"}

\* C11: the platform check is skipped exactly for report, --version, --help
\* and reset: with these no copy calls assertSupportedPlatform, with every
\* other command token it is the first step of every copy that runs; and on
\* an unsupported platform nothing but the check, the report of the error by
\* main().catch and process.exit(1) ever happens: no workspace lookup, no
\* classification, no resolution, no command execution.
C11_PlatformCheckFirstAndFatal ==
  /\ PlatformFree => ~Happened("assertSupportedPlatform")
  /\ ~PlatformFree =>
       /\ pc # "main" => log # <<>>
       /\ \A i \in 1..Len(log) :
            FirstStepOf(log[i].copy) = "assertSupportedPlatform"
  /\ (~PlatformFree /\ ~platformOk) =>
       /\ pc \in {"main", "rejected", "exited"}
       /\ \E n \in 0..3 :
            Whats = SubSeq(<<"assertSupportedPlatform", "console.error",
                             "process.exit">>, 1, n)
       /\ workspace = [dir |-> Undefined, type |-> Undefined]
       /\ NEOAI_DAEMON = Undefined
       /\ pc = "exited" => exitCode = 1

\* a cloud command on an unsupported platform has ended with exit code 1
C11_Witness ==
  /\ CloudOnly /\ ~platformOk
  /\ pc = "exited" /\ exitCode = 1
  /\ Happened("assertSupportedPlatform")

(***************************************************************************)
(* C12                                                                     *)
(***************************************************************************)
\* the lines printed by handleNeoaiVersionCommand
VersionPrints ==
  {i \in 1..Len(log) : StartsWith(log[i].what, "Neoai Version:")}

\* the steps that C12 says --version never gets to
BeyondVersion ==
  HandOffs \cup {NoWorkspaceGuidance} \cup MissingLocalDiagnostics
    \cup {"engine", "initLocal"}

\* C12: with --version the dispatcher, whatever the workspace and the
\* installations, prints the local and the global version ('Not found' for a
\* version that is not known) and ends with exit code 0, and it takes none
\* of ExitNoWorkspace, ExitMissingLocal, command execution or hand-off.
C12_VersionExitsZero ==
  argv2 = "--version" =>
    /\ \A i \in 1..Len(log) : log[i].what \notin BeyondVersion
    /\ pc # "done"
    /\ pc = "exited" =>
         /\ exitCode = 0
         /\ Cardinality(VersionPrints) = 1
         /\ \A i \in VersionPrints :
              /\ LocalPath = Null => Includes(log[i].what, "Local: Not found")
              /\ Includes(log[i].what, "Global: ")

\* what C12 says holds whenever the self resolution of line 77 succeeds
C12_WhenSelfResolves ==
  (argv2 = "--version" /\ SelfPath # Null) =>
    /\ \A i \in 1..Len(log) : log[i].what \notin BeyondVersion
    /\ pc \notin {"done", "rejected"}
    /\ pc = "exited" =>
         /\ exitCode = 0
         /\ Cardinality(VersionPrints) = 1
         /\ \A i \in VersionPrints :
              /\ LocalPath = Null => Includes(log[i].what, "Local: Not found")
              /\ Includes(log[i].what, "Global: ")

(***************************************************************************)
(* warnIfUsingOutdatedGlobalInstall and getLatestVersionOfNeoai on their   *)
(* own: a process that calls the memoized lookup some times and then the   *)
(* warning, with every value the two versions and the marker can have.     *)
(***************************************************************************)
WarnInit ==
  /\ GLOBAL_NEOAI_VERSION \in Versions \cup {Null, Undefined}
  /\ LOCAL_NEOAI_VERSION \in Versions \cup {Null, Undefined}
  /\ NEOAI_CLI_SET \in {Undefined, "true"}
  /\ cache = Null
  /\ pc = "calls"
  /\ log = <<>>
  /\ argv1 = GlobalFile /\ copy = GlobalFile /\ loaded = {GlobalFile}
  /\ argv2 = Undefined /\ argvRest = <<Undefined>>
  /\ platformOk = TRUE
  /\ cwdWorkspace = NoWorkspace /\ workspace = NoWorkspace
  /\ files = {GlobalFile}
  /\ daemonOn = FALSE /\ NEOAI_DAEMON = Undefined
  /\ localNeoai = Null /\ selfNeoai = GlobalFile /\ isLocalInstall = FALSE
  /\ globalThisVersion = GLOBAL_NEOAI_VERSION
  /\ exitCode = -1
  /\ required = <<>>
  /\ engineCall = [mode |-> Undefined, args |-> <<>>]
  /\ NoPostInstall

\* lines 292-295: one call of getLatestVersionOfNeoai and what it returns
CallLatest ==
  /\ pc = "calls"
  /\ Count("getLatestVersionOfNeoai") < MaxCalls
  /\ \E o \in LatestOutcomes :
       /\ cache' = o.cache
       /\ log' = log \o o.events \o <<Ev("returned " \o o.value)>>
  /\ UNCHANGED <<timers, given, argvRest, NEOAI_DAEMON, NEOAI_CLI_SET, copy, loaded,
                 pc, locals, globalThisVersion, exitCode, required,
                 engineCall>>

\* lines 207-237: one call of warnIfUsingOutdatedGlobalInstall
CallWarn ==
  /\ pc = "calls"
  /\ \E w \in WarnOutcomes(GLOBAL_NEOAI_VERSION, LOCAL_NEOAI_VERSION) :
       /\ cache' = w.cache
       /\ log' = log \o w.events
  /\ pc' = "warned"
  /\ UNCHANGED <<timers, given, argvRest, NEOAI_DAEMON, NEOAI_CLI_SET, copy, loaded,
                 locals, globalThisVersion, exitCode, required, engineCall>>

WarnNext == CallLatest \/ CallWarn

WarnSpec == WarnInit /\ [][WarnNext]_vars

(***************************************************************************)
(* C13                                                                     *)
(***************************************************************************)
\* the steps of the call of warnIfUsingOutdatedGlobalInstall, once made
WarnSteps ==
  LET start == CHOOSE i \in 1..Len(log) :
                 log[i].what = "warnIfUsingOutdatedGlobalInstall"
  IN {log[i].what : i \in (start + 1)..Len(log)}

\* the marker NEOAI_CLI_SET is set
MarkerSet == NEOAI_CLI_SET = "true"

\* a version is known
Known(version) == version \in Versions

\* what the latest-published lookup has returned to the call, a version or
\* null: the call leaves it in the memo cell
LatestReturned == cache

\* C13: the warning is emitted exactly when the marker is unset, a global
\* version is known and either the local version is known with
\* major(global) < major(local), or it is not known and the latest-published
\* lookup returns a version with major(global) < major(latest); with the
\* marker set the lookup is not invoked.
C13_WarnsExactlyWhenOutdated ==
  pc = "warned" =>
    /\ "output.warn" \in WarnSteps <=>
         /\ ~MarkerSet
         /\ Known(GLOBAL_NEOAI_VERSION)
         /\ IF Known(LOCAL_NEOAI_VERSION)
              THEN major(GLOBAL_NEOAI_VERSION) < major(LOCAL_NEOAI_VERSION)
              ELSE /\ Known(LatestReturned)
                   /\ major(GLOBAL_NEOAI_VERSION) < major(LatestReturned)
    /\ MarkerSet => "getLatestVersionOfNeoai" \notin WarnSteps
    /\ ~Known(GLOBAL_NEOAI_VERSION) => WarnSteps = {}

\* the warning was emitted on the strength of the latest published version,
\* and was not emitted for equal majors
C13_Witness ==
  /\ pc = "warned"
  /\ ~Known(LOCAL_NEOAI_VERSION)
  /\ "_getLatestVersionOfNeoai" \in WarnSteps
  /\ "output.warn" \in WarnSteps

(***************************************************************************)
(* C14                                                                     *)
(***************************************************************************)
\* the positions of the log at which the underlying fetch ran
Fetches == {i \in 1..Len(log) : log[i].what = "_getLatestVersionOfNeoai"}

\* C14: the underlying fetch runs at most once in a process, however often
\* getLatestVersionOfNeoai is called and whether the first fetch returned a
\* version or null.
C14_FetchesAtMostOnce == Cardinality(Fetches) <= 1

\* what C14 says holds from the first fetch that returns a version: no fetch
\* follows it, and every later call returns that version
C14_WhenTheFetchSucceeds ==
  \A i \in Fetches :
    (i < Len(log) /\ log[i + 1].what # "returned null") =>
      /\ \A j \in Fetches : j <= i
      /\ \A k \in (i + 1)..Len(log) :
           StartsWith(log[k].what, "returned ") =>
             log[k].what = log[i + 1].what

(***************************************************************************)
(* rewriteTargetsAndProjects on its own: applied to every argument vector  *)
(* of a command token and up to MaxArgs further tokens.                    *)
(***************************************************************************)
\* the tokens the vectors are made of: the separator, collector flags, plain
\* values, the empty string and another flag
ArgTokens == {"--", "-p", "--targets", "a", "b", "", "--help"}

ArgVectors == UNION {[1..n -> ArgTokens] : n \in 0..MaxArgs}

RewriteInit ==
  /\ argv2 \in {"build", "-p", "--"}
  /\ argvRest \in ArgVectors
  /\ pc = "rewrite"
  /\ engineCall = [mode |-> Undefined, args |-> <<>>]
  /\ log = <<>>
  /\ argv1 = GlobalFile /\ copy = GlobalFile /\ loaded = {GlobalFile}
  /\ platformOk = TRUE
  /\ cwdWorkspace = NoWorkspace /\ workspace = NoWorkspace
  /\ files = {GlobalFile}
  /\ daemonOn = FALSE /\ NEOAI_DAEMON = Undefined
  /\ NEOAI_CLI_SET = "true"
  /\ localNeoai = Null /\ selfNeoai = GlobalFile /\ isLocalInstall = FALSE
  /\ LOCAL_NEOAI_VERSION = Null /\ GLOBAL_NEOAI_VERSION = Null
  /\ globalThisVersion = Null
  /\ cache = Null
  /\ exitCode = -1
  /\ required = <<>>
  /\ NoPostInstall

\* line 43: const newArgs = rewriteTargetsAndProjects(process.argv)
Rewrite ==
  /\ pc = "rewrite"
  /\ engineCall' = [mode |-> "newArgs", args |-> rewriteTargetsAndProjects(argv)]
  /\ pc' = "rewritten"
  /\ UNCHANGED <<timers, given, argvRest, NEOAI_DAEMON, NEOAI_CLI_SET, copy, loaded,
                 locals, globalThisVersion, cache, exitCode, required, log>>

RewriteNext == Rewrite

RewriteSpec == RewriteInit /\ [][RewriteNext]_vars

(***************************************************************************)
(* C17                                                                     *)
(***************************************************************************)
\* the reference rewriting, told token by token and not as a scan
RefCollectors ==
  {"-p", "--projects", "--exclude", "--files", "-t", "--target", "--targets"}

RefDashed(token) == Len(token) >= 1 /\ SubSeq(token, 1, 1) = "-"

\* the comma-join of a sequence of tokens
RECURSIVE RefJoin(_)
RefJoin(items) ==
  IF Len(items) = 0 THEN ""
  ELSE IF Len(items) = 1 THEN items[1]
  ELSE RefJoin(SubSeq(items, 1, Len(items) - 1)) \o "," \o items[Len(items)]

\* the tokens before the first separator, and the separator with what follows
RefHead(tokens) ==
  IF \E i \in 1..Len(tokens) : tokens[i] = "--"
    THEN SubSeq(tokens, 1,
                (CHOOSE i \in 1..Len(tokens) :
                   tokens[i] = "--" /\ \A j \in 1..(i - 1) : tokens[j] # "--")
                - 1)
    ELSE tokens

RefVerbatim(tokens) == SubSeq(tokens, Len(RefHead(tokens)) + 1, Len(tokens))

\* the token at i belongs to the values of a collector flag before it
RefCollected(head, i) ==
  /\ ~RefDashed(head[i])
  /\ \E k \in 1..(i - 1) :
       /\ head[k] \in RefCollectors
       /\ \A m \in (k + 1)..(i - 1) : ~RefDashed(head[m])

\* the values that immediately follow the collector flag at i
RefValues(head, i) ==
  LET last == CHOOSE n \in i..Len(head) :
                /\ \A m \in (i + 1)..n : ~RefDashed(head[m])
                /\ (n < Len(head) => RefDashed(head[n + 1]))
  IN SubSeq(head, i + 1, last)

\* what the token at i contributes to the output
RefEmit(head, i) ==
  IF head[i] \in RefCollectors THEN <<head[i], RefJoin(RefValues(head, i))>>
  ELSE IF RefCollected(head, i) THEN <<>>
  ELSE <<head[i]>>

RECURSIVE RefEmitUpTo(_, _)
RefEmitUpTo(head, n) ==
  IF n = 0 THEN <<>> ELSE RefEmitUpTo(head, n - 1) \o RefEmit(head, n)

RefRewrite(args) ==
  LET tokens == SubSeq(args, 4, Len(args))
  IN <<args[3]>> \o RefEmitUpTo(RefHead(tokens), Len(RefHead(tokens)))
       \o RefVerbatim(tokens)

\* C17: for every argument vector of length 3 or more the result of
\* rewriteTargetsAndProjects is the reference rewriting: the command token,
\* then every token before the first '--' copied, a collector flag followed
\* by the one comma-join of the values that immediately follow it (the empty
\* string when there are none), and the first '--' with everything after it
\* verbatim.
C17_RewriteIsReference ==
  pc = "rewritten" =>
    /\ engineCall.args = RefRewrite(argv)
    /\ Len(engineCall.args) >= 1
    /\ engineCall.args[1] = argv2

\* a collector flag without values, one with two values joined, and
\* a collector flag after the separator left alone
C17_Witness ==
  /\ pc = "rewritten"
  /\ \/ engineCall.args = <<"build", "--targets", "", "-p", "a,b">>
     \/ engineCall.args = <<"build", "-p", "a", "--", "-p">>

(***************************************************************************)
(* C18                                                                     *)
(***************************************************************************)
ResolutionSteps == {"resolveNeoai(workspace)", "resolveNeoai(null)"}

\* C18: no failure to resolve an installation, the local one or the self
\* one, leaves main as an exception: main never rejects at a resolution
\* step, and so the top-level error handler never runs because of one.
C18_ResolutionNeverThrownPast ==
  /\ pc = "rejected" => log[Len(log)].what \notin ResolutionSteps
  /\ \A i \in 2..Len(log) :
       (log[i].what = "console.error" /\ log[i].copy = log[i - 1].copy)
         => log[i - 1].what \notin ResolutionSteps

\* what C18 says of the local resolution holds: when it fails and the self
\* resolution does not, localNeoai is null and main goes on
C18_LocalFailureIsNotFound ==
  (LocalPath = Null /\ SelfPath # Null) =>
    /\ pc = "rejected" => log[Len(log)].what \notin ResolutionSteps
    /\ (copy = argv1 /\ pc \in {"versions", "dispatch"}) => localNeoai = Null

(***************************************************************************)
(* C19                                                                     *)
(***************************************************************************)
\* the running copy has computed its installation context
ContextComputed == selfNeoai \notin {Undefined, Null}

\* C19: in the installation context isLocalInstall is the equality of the
\* paths localNeoai and selfNeoai; and without a workspace no local
\* resolution is attempted, localNeoai is null, isLocalInstall is false and
\* the local version is null.
C19_ContextInvariants ==
  ContextComputed =>
    /\ isLocalInstall = (localNeoai = selfNeoai)
    /\ workspace = NoWorkspace =>
         /\ localNeoai = Null
         /\ ~isLocalInstall
         /\ "resolveNeoai(workspace)" \notin StepsOf(copy)
         /\ pc # "versions" => LOCAL_NEOAI_VERSION = Null

\* the context was computed without a workspace, though an installation
\* lies above the working directory
C19_Witness ==
  /\ pc = "dispatch"
  /\ workspace = NoWorkspace
  /\ RootFile(Dirname(Cwd)) \in files
  /\ localNeoai = Null /\ LOCAL_NEOAI_VERSION = Null /\ ~isLocalInstall

(***************************************************************************)
(* C20                                                                     *)
(***************************************************************************)
\* the copies whose main has run or is running
CopiesRun == {log[i].copy : i \in 1..Len(log)} \cup {copy}

\* the run of main of the copy c is over: it ended, or it handed over
Finished(c) == c # copy \/ Terminated

\* the terminal actions that the run of the copy c has taken; the engine
\* call and the error output inside initLocal belong to initLocal
TerminalActions(c) ==
  LET steps == StepsOf(c)
  IN (IF "initLocal" \in steps THEN {"initLocal"} ELSE {})
       \cup (IF "engine" \in steps /\ "initLocal" \notin steps
               THEN {"engine in process"} ELSE {})
       \cup (IF steps \cap HandOffs # {} THEN {"hand-off"} ELSE {})
       \cup (IF \E w \in steps : StartsWith(w, "Neoai Version:")
               THEN {"version exit"} ELSE {})
       \cup (IF NoWorkspaceGuidance \in steps THEN {"ExitNoWorkspace"} ELSE {})
       \cup (IF steps \cap MissingLocalDiagnostics # {}
               THEN {"ExitMissingLocal"} ELSE {})
       \cup (IF "console.error" \in steps /\ "initLocal" \notin steps
               THEN {"top-level error exit"} ELSE {})

\* C20 as stated: the run of main of every copy takes exactly one terminal
\* action: never none when it is over, never two.
C20_ExactlyOneTerminalAction ==
  \A c \in CopiesRun :
    /\ Cardinality(TerminalActions(c)) <= 1
    /\ Finished(c) => Cardinality(TerminalActions(c)) = 1

\* C20 amended: the run of main of every copy takes at most one of the
\* actions other than the top-level error exit, and at least one terminal
\* action when it is over, so that main never falls through its if/else
\* chain; the top-level error exit is taken alone, when main throws before
\* it routes, or after the engine invoked in process or the hand-off threw.
C20_OneRouteAndErrorOnlyAfterThrow ==
  \A c \in CopiesRun :
    LET route == TerminalActions(c) \ {"top-level error exit"}
    IN /\ Cardinality(route) <= 1
       /\ Finished(c) => TerminalActions(c) # {}
       /\ "top-level error exit" \in TerminalActions(c) =>
            route \subseteq {"engine in process", "hand-off"}

\* both copies of a delegated run took one terminal action each
C20_Witness ==
  /\ pc = "done" /\ copy # argv1
  /\ TerminalActions(argv1) = {"hand-off"}
  /\ TerminalActions(copy) = {"initLocal"}

(***************************************************************************)
(* The post-install script, src/bin/post-install.ts: the async function of *)
(* lines 21-42, the watchdog timer of lines 16-19 and the handlers of      *)
(* lines 52-60, on the one thread of the event loop. Time passes while     *)
(* synchronous code runs; a timer callback or an event handler runs only   *)
(* while the function is suspended at its await.                           *)
(***************************************************************************)
\* workspaceRoot of src/utils/workspace-root: the workspace the package is
\* installed for, or the working directory
workspaceRoot == "/p/ws"

\* what the post-install script leaves alone
dispatcher ==
  <<given, argvRest, NEOAI_DAEMON, NEOAI_CLI_SET, copy, loaded, locals,
    globalThisVersion, cache, required, engineCall>>

\* lines 16-22: the timer is set and the async function is entered
PostInit ==
  /\ postinstallTimeout = "armed"
  /\ elapsed = FALSE
  /\ handlers = FALSE
  /\ pc = "try"
  /\ log = <<>>
  /\ exitCode = -1
  /\ files \in SUBSET {GlobalFile, RootFile(workspaceRoot)} \ {{}}
  /\ argv1 \in files   \* the package whose post-install script runs
  /\ copy = argv1 /\ loaded = {argv1}
  /\ argv2 = Undefined /\ argvRest = <<Undefined>>
  /\ platformOk \in BOOLEAN
  /\ cwdWorkspace \in {[dir |-> workspaceRoot, type |-> "nx"], NoWorkspace}
  /\ workspace = cwdWorkspace
  /\ daemonOn = FALSE /\ NEOAI_DAEMON = Undefined
  /\ NEOAI_CLI_SET = Undefined
  /\ localNeoai = Null /\ selfNeoai = Null /\ isLocalInstall = FALSE
  /\ LOCAL_NEOAI_VERSION = Null /\ GLOBAL_NEOAI_VERSION = Null
  /\ globalThisVersion = Null
  /\ cache = Null
  /\ required = <<>>
  /\ engineCall = [mode |-> Undefined, args |-> <<>>]

\* the timer callback is due and the event loop is free to run it
TimerDue == postinstallTimeout = "armed" /\ elapsed

\* lines 44-50: isMainNeoaiPackage; "null" stands for the exception of
\* require.resolve when no package is installed for the workspace
mainNeoaiPath == NodeResolve(files, workspaceRoot)

\* line 24: isMainNeoaiPackage() && fileExists(join(workspaceRoot,
\* 'neoai.json')); neoai.json is there when the directory is a workspace
GuardCheck ==
  /\ pc = "try"
  /\ pc' = IF mainNeoaiPath = Null THEN "catch"
           ELSE IF mainNeoaiPath = argv1 /\ cwdWorkspace # NoWorkspace
             THEN "assert" ELSE "finally"
  /\ log' = log \o <<Ev("isMainNeoaiPackage")>>
  /\ UNCHANGED <<timers, dispatcher, exitCode>>

\* line 25: assertSupportedPlatform()
PostAssertPlatform ==
  /\ pc = "assert"
  /\ pc' = IF platformOk THEN "cloud" ELSE "catch"
  /\ log' = log \o <<Ev("assertSupportedPlatform")>>
  /\ UNCHANGED <<timers, dispatcher, exitCode>>

\* line 27: isNeoaiCloudUsed(readNeoaiJson()), which throws on a neoai.json
\* that cannot be read
CloudCheck ==
  /\ pc = "cloud"
  /\ \E outcome \in {"throws", "unused", "used"} :
       pc' = CASE outcome = "throws" -> "catch"
               [] outcome = "unused" -> "finally"
               [] outcome = "used" -> "verify"
  /\ log' = log \o <<Ev("isNeoaiCloudUsed")>>
  /\ UNCHANGED <<timers, dispatcher, exitCode>>

\* line 28: the call of verifyOrUpdateNeoaiCloudClient(getCloudOptions());
\* when it returns its promise the function is suspended at the await and
\* the top level of the module goes on to lines 52-60
StartVerify ==
  /\ pc = "verify"
  /\ \E throws \in BOOLEAN :
       IF throws
         THEN /\ pc' = "catch"
              /\ log' = log \o <<Ev("verifyOrUpdateNeoaiCloudClient")>>
              /\ UNCHANGED handlers
         ELSE /\ pc' = "await"
              /\ log' = log \o <<Ev("verifyOrUpdateNeoaiCloudClient"),
                                 Ev("await")>>
              /\ handlers' = TRUE
  /\ UNCHANGED <<postinstallTimeout, elapsed, dispatcher, exitCode>>

\* line 28: the awaited promise settles, before the timer is due
WorkSettles ==
  /\ pc = "await" /\ ~TimerDue
  /\ \E rejected \in BOOLEAN :
       /\ pc' = IF rejected THEN "catch" ELSE "finally"
       /\ log' = log \o <<Ev(IF rejected THEN "rejected" ELSE "resolved")>>
  /\ UNCHANGED <<timers, dispatcher, exitCode>>

\* lines 31-32: catch (e) { logger.verbose(e) }
Catch ==
  /\ pc = "catch"
  /\ pc' = "finally"
  /\ log' = log \o <<Ev("catch")>>
  /\ UNCHANGED <<timers, dispatcher, exitCode>>

\* line 39 left out: the timer stays as it is
clearTimeout_Skipped(timer) == timer

\* line 39: clearTimeout(postinstallTimeout)
clearTimeout(timer) == IF timer = "armed" THEN "cleared" ELSE timer

\* lines 33-41: finally
Finally ==
  /\ pc = "finally"
  /\ postinstallTimeout' = clearTimeout(postinstallTimeout)
  /\ Exit(0, <<Ev("finally"), Ev("clearTimeout")>>)
  /\ UNCHANGED <<elapsed, handlers, dispatcher>>

\* the 30 seconds of line 19 pass, whatever the script is doing
BudgetElapses ==
  /\ pc # "exited" /\ ~elapsed
  /\ elapsed' = TRUE
  /\ log' = log \o <<Ev("30s elapsed at " \o pc)>>
  /\ UNCHANGED <<postinstallTimeout, handlers, dispatcher, pc, exitCode>>

\* lines 16-19: the callback of the timer
TimerFires ==
  /\ pc = "await" /\ TimerDue
  /\ postinstallTimeout' = "fired"
  /\ Exit(0, <<Ev("logger.verbose: timed out")>>)
  /\ UNCHANGED <<elapsed, handlers, dispatcher>>

\* lines 52-55: an exception outside the function, raised while it waits
UncaughtException ==
  /\ pc = "await" /\ ~TimerDue /\ handlers
  /\ Exit(0, <<Ev("uncaughtException"), Ev("logger.verbose: error")>>)
  /\ UNCHANGED <<timers, dispatcher>>

\* lines 57-60: a promise nobody handles is rejected while the function waits
UnhandledRejection ==
  /\ pc = "await" /\ ~TimerDue /\ handlers
  /\ Exit(0, <<Ev("unhandledRejection"), Ev("logger.verbose: error")>>)
  /\ UNCHANGED <<timers, dispatcher>>

PostNext ==
  \/ GuardCheck
  \/ PostAssertPlatform
  \/ CloudCheck
  \/ StartVerify
  \/ WorkSettles
  \/ Catch
  \/ Finally
  \/ BudgetElapses
  \/ TimerFires
  \/ UncaughtException
  \/ UnhandledRejection

PostSpec == PostInit /\ [][PostNext]_vars

(***************************************************************************)
(* C15                                                                     *)
(***************************************************************************)
\* the function of lines 21-42 got to its finally: the success and the
\* failure path
ThroughFinally == Happened("finally")

\* C15: the post-install script ends with exit code 0 on every path, and on
\* the paths through finally, with the guarded work done, skipped or failed,
\* the timer is cancelled before the exit.
C15_AlwaysExitsZero ==
  /\ exitCode \in {-1, 0}
  /\ pc = "exited" => exitCode = 0
  /\ (pc = "exited" /\ ThroughFinally) =>
       /\ postinstallTimeout = "cleared"
       /\ Before("clearTimeout", "process.exit")
       /\ Count("clearTimeout") = 1

\* the script ended with exit code 0 and the timer cancelled after the
\* platform check threw
C15_Witness ==
  /\ pc = "exited" /\ exitCode = 0
  /\ ~platformOk
  /\ Whats = <<"isMainNeoaiPackage", "assertSupportedPlatform", "catch",
               "finally", "clearTimeout", "process.exit">>
  /\ postinstallTimeout = "cleared"

(***************************************************************************)
(* C16                                                                     *)
(***************************************************************************)
\* the positions of the function at which the guarded work is not completed
Unfinished == {"try", "assert", "cloud", "verify", "await"}

\* the step after the one at position t of the log, if any, is the callback
\* of the timer, and if the process has ended the timer ended it
TimerEndsItAt(t) ==
  /\ t < Len(log) => log[t + 1].what = "logger.verbose: timed out"
  /\ pc = "exited" => (postinstallTimeout = "fired" /\ exitCode = 0)

\* C16: the process exits exactly once; when the guarded work completes
\* first the timer is cleared and its callback never runs; and when the 30
\* seconds elapse while the guarded work is not completed, the process is
\* ended then and there by the timer, with exit code 0, whatever the work
\* would have come to.
C16_WatchdogRace ==
  /\ Count("process.exit") <= 1
  /\ pc = "exited" => Count("process.exit") = 1
  /\ Happened("clearTimeout") =>
       (postinstallTimeout = "cleared" /\ ~Happened("logger.verbose: timed out"))
  /\ \A t \in 1..Len(log) :
       log[t].what \in {"30s elapsed at " \o at : at \in Unfinished}
         => TimerEndsItAt(t)

\* what C16 says holds when the 30 seconds elapse while the function is
\* suspended at its await
C16_WhenElapsedWhileAwaiting ==
  /\ Count("process.exit") <= 1
  /\ pc = "exited" => Count("process.exit") = 1
  /\ Happened("clearTimeout") =>
       (postinstallTimeout = "cleared" /\ ~Happened("logger.verbose: timed out"))
  /\ \A t \in 1..Len(log) :
       log[t].what = "30s elapsed at await" => TimerEndsItAt(t)

====
